---- MODULE Spec2Model ----
(***************************************************************************)
(* A model of the travel-advisors data extractor:                          *)
(*   - FileCache          (src/libs/file-cache.js)                         *)
(*   - Proxy              (src/unnamed/part_000, the proxy rotator)        *)
(*   - ProxyFetch         (src/unnamed/part_002, lines 90-170)             *)
(*   - fetchPage, fetchAgentBio, work (src/scrape-full-advisors.js)        *)
(*                                                                         *)
(* Five specifications share the variables:                                *)
(*   Spec     one run of work(), the two-phase scraper;                    *)
(*   SpecLib  arbitrary callers of proxyFetch.fetch, with a clock and a    *)
(*            cache directory that may hold files of any content;          *)
(*   SpecItem   one call of fetchPage or of fetchAgentBio;                 *)
(*   SpecCache  callers of the FileCache's set, get, delete, purgeExpired; *)
(*   SpecHash   callers of ProxyFetch._getRequestHash.                     *)
(***************************************************************************)
EXTENDS Integers, Sequences, FiniteSets, TLC

(* ---------------------------------------------------------------- bounds *)
MaxPool == 2          \* longest proxy list the credential service returns
MaxCalls == 2         \* proxyFetch.fetch calls made in SpecLib
MaxNow == 2           \* seconds the clock may advance
MaxRetriesBound == 2  \* largest configured MAX_RETRIES
MaxBatchSize == 2     \* largest configured BATCH_SIZE
MaxTotal == 5         \* largest totalAgents a listing reports
MaxId == 2            \* agent identifiers are 1..MaxId
PageSize == 2         \* the configured PAGE_SIZE (2 makes Math.ceil matter)
MaxItemRetries == 3   \* largest MAX_RETRIES of a lone fetchPage / fetchAgentBio call

(* ------------------------------------------------------- program constants *)
MsPerSecond == 1000   \* expiresAt = Date.now() + ttlSeconds * 1000
RetryDelayMs == 200   \* await sleep(200) before a retry

(* ------------------------------------------------------------ JS values *)
(* A JavaScript value, as far as the program looks at it.  Every value is  *)
(* a record of the same shape:                                             *)
(*   t      "undef" | "null" | "num" | "nan" | "str" | "obj"               *)
(*   s      the text of a string                                           *)
(*   n      the number of a "num"                                          *)
(*   data   what the object's .data property is:                           *)
(*            "none"     no .data property                                 *)
(*            "noagent"  .data without an .agent property                  *)
(*            "list"     .data.agent is an array of {agentId}              *)
(*            "bio"      .data holds the fields of one advisor             *)
(*   agent  the agentId of each element of .data.agent                     *)
(*   total  .data.totalAgents, -1 when the property is absent              *)
(*   id     .data.id, 0 when the property is absent                        *)
JsVal(t, s, n, data, agent, total, id) ==
  [t |-> t, s |-> s, n |-> n, data |-> data, agent |-> agent, total |-> total, id |-> id]

Undefined == JsVal("undef", "", 0, "none", <<>>, -1, 0)
Null == JsVal("null", "", 0, "none", <<>>, -1, 0)
NaN == JsVal("nan", "", 0, "none", <<>>, -1, 0)
Num(n) == JsVal("num", "", n, "none", <<>>, -1, 0)
Str(s) == JsVal("str", s, 0, "none", <<>>, -1, 0)
EmptyObject == JsVal("obj", "", 0, "none", <<>>, -1, 0)
ListBody(agent, total) == JsVal("obj", "", 0, "list", agent, total, 0)
NoAgentBody(total) == JsVal("obj", "", 0, "noagent", <<>>, total, 0)
BioBody(id) == JsVal("obj", "", 0, "bio", <<>>, -1, id)

\* JavaScript's ToBoolean, as `if (cachedResult)` applies it.
Truthy(v) ==
  \/ v.t = "obj"
  \/ v.t = "str" /\ v.s # ""
  \/ v.t = "num" /\ v.n # 0

\* Reading v.data: a TypeError when v is null or undefined.
ReadDataThrows(v) == v.t \in {"undef", "null"}
\* v.data is an object (reading a property of it does not throw).
HasData(v) == v.t = "obj" /\ v.data # "none"

(* ------------------------------------------------------------- JSON text *)
(* A JavaScript string holding either plain text or the JSON text of a     *)
(* value; "none" is the missing string (JSON.stringify(undefined) is       *)
(* undefined, and JSON.stringify of an object drops such a property).      *)
NoText == [txt |-> "none", v |-> Undefined]
RawText(v) == [txt |-> "raw", v |-> v]
JsonText(v) == [txt |-> "json", v |-> v]

\* JSON.stringify(value): undefined has no JSON text, NaN is written as null.
JsonStringify(v) ==
  IF v.t = "undef" THEN NoText
  ELSE IF v.t = "nan" THEN JsonText(Null)
  ELSE JsonText(v)

\* JSON.parse(text) throws on a missing string and on text that is no JSON
\* (the plain strings of this model, "" and "a", are none).
JsonParseThrows(text) == text.txt # "json"
JsonParse(text) == text.v

(* -------------------------------------------------------------- FileCache *)
(* One file of the cache directory, by what JSON.parse makes of it:        *)
(*   st    "nofile"   no file for the key                                  *)
(*         "corrupt"  text JSON.parse rejects, or the JSON text null       *)
(*         "file"     a JSON object                                        *)
(*   type  its .type property ("" when absent)                             *)
(*   value its .value property, a string (NoText when absent)              *)
(*   expk  its .expiresAt property: "num" | "null" | "missing"             *)
(*   exp   the number, when expk = "num"                                   *)
CacheFile(type, value, expk, exp) ==
  [st |-> "file", type |-> type, value |-> value, expk |-> expk, exp |-> exp]
NoFile == [st |-> "nofile", type |-> "", value |-> NoText, expk |-> "missing", exp |-> 0]
CorruptFile == [st |-> "corrupt", type |-> "", value |-> NoText, expk |-> "missing", exp |-> 0]

\* GetExpired with the comparison written `>=`: an entry is gone at the
\* very millisecond it expires.
GetExpiredAtExpiry(f, nw) ==
  CASE f.expk = "num" -> f.exp # 0 /\ nw >= f.exp
    [] f.expk = "null" -> nw >= 0
    [] OTHER -> FALSE

\* get's test `expiresAt !== 0 && Date.now() > expiresAt`: a missing
\* expiresAt compares false, null compares as 0.
GetExpired(f, nw) ==
  CASE f.expk = "num" -> f.exp # 0 /\ nw > f.exp
    [] f.expk = "null" -> nw > 0
    [] OTHER -> FALSE

\* PurgeExpiredTest without the test of expiresAt itself: an entry whose
\* expiresAt is 0 is swept.
PurgeExpiredTestNoZeroCheck(f, nw) ==
  f.expk = "num" /\ nw > f.exp

\* purgeExpired's test `expiresAt && now > expiresAt`.
PurgeExpiredTest(f, nw) ==
  f.expk = "num" /\ f.exp # 0 /\ nw > f.exp

\* CacheSet with the guard written `ttlSeconds < 0`: a ttl of 0 writes an
\* entry that expires at once.
CacheSetZeroTtlWrites(st, nw, key, v, ttl) ==
  IF ttl < 0 THEN st
  ELSE LET isString == v.t = "str"
           data == CacheFile(IF isString THEN "string" ELSE "json",
                             IF isString THEN RawText(v) ELSE JsonStringify(v),
                             "num", nw + ttl * MsPerSecond)
       IN [st EXCEPT ![key] = data]

\* CacheSet that tags every value "json" without stringifying strings.
CacheSetTagsJson(st, nw, key, v, ttl) ==
  IF ttl <= 0 THEN st
  ELSE LET isString == v.t = "str"
           data == CacheFile("json",
                             IF isString THEN RawText(v) ELSE JsonStringify(v),
                             "num", nw + ttl * MsPerSecond)
       IN [st EXCEPT ![key] = data]

\* CacheSet that takes a non-positive ttl as a request to forget the key.
CacheSetNonPositiveDeletes(st, nw, key, v, ttl) ==
  IF ttl <= 0 THEN [st EXCEPT ![key] = NoFile]
  ELSE LET isString == v.t = "str"
           data == CacheFile(IF isString THEN "string" ELSE "json",
                             IF isString THEN RawText(v) ELSE JsonStringify(v),
                             "num", nw + ttl * MsPerSecond)
       IN [st EXCEPT ![key] = data]

\* FileCache.set(key, value, ttlSeconds)
CacheSet(st, nw, key, v, ttl) ==
  IF ttl <= 0 THEN st
  ELSE LET isString == v.t = "str"
           data == CacheFile(IF isString THEN "string" ELSE "json",
                             IF isString THEN RawText(v) ELSE JsonStringify(v),
                             "num", nw + ttl * MsPerSecond)
       IN [st EXCEPT ![key] = data]

\* CacheGet without the try/catch: content that does not parse raises to
\* the caller and stays on disk.
CacheGetNoCatch(st, nw, key) ==
  LET f == st[key]
      gone == [st EXCEPT ![key] = NoFile]
      Ret(store1, val) == [store |-> store1, val |-> val, threw |-> FALSE]
  IN IF f.st = "nofile" THEN Ret(st, Undefined)
     ELSE IF f.st = "corrupt" THEN [store |-> st, val |-> Undefined, threw |-> TRUE]
     ELSE IF GetExpired(f, nw) THEN Ret(gone, Undefined)
     ELSE IF f.type = "string"
       THEN Ret(st, IF f.value.txt = "none" THEN Undefined ELSE f.value.v)
     ELSE IF f.type = "json"
       THEN IF JsonParseThrows(f.value)
            THEN [store |-> st, val |-> Undefined, threw |-> TRUE]
            ELSE Ret(st, JsonParse(f.value))
     ELSE Ret(st, Undefined)

\* FileCache.get(key): the directory afterwards, the value returned and
\* whether the call raised.  A file whose text does not parse, or parses to
\* null, makes the try block throw: the catch block unlinks it (an unlink
\* that fails is swallowed) and returns undefined, so nothing is raised.
CacheGet(st, nw, key) ==
  LET f == st[key]
      gone == [st EXCEPT ![key] = NoFile]
      Ret(store1, val) == [store |-> store1, val |-> val, threw |-> FALSE]
  IN IF f.st = "nofile" THEN Ret(st, Undefined)
     ELSE IF f.st = "corrupt" THEN Ret(gone, Undefined)
     ELSE IF GetExpired(f, nw) THEN Ret(gone, Undefined)
     ELSE IF f.type = "string"
       THEN Ret(st, IF f.value.txt = "none" THEN Undefined ELSE f.value.v)
     ELSE IF f.type = "json"
       THEN IF JsonParseThrows(f.value) THEN Ret(gone, Undefined)
            ELSE Ret(st, JsonParse(f.value))
     ELSE Ret(st, Undefined)

\* FileCache.delete(key): the directory afterwards and the boolean returned.
CacheDelete(st, key) ==
  [store |-> [st EXCEPT ![key] = NoFile], was |-> st[key].st # "nofile"]

\* FileCache.purgeExpired(): a file that does not parse is skipped.
CachePurgeExpired(st, nw) ==
  [k \in DOMAIN st |->
     IF st[k].st = "file" /\ PurgeExpiredTest(st[k], nw) THEN NoFile ELSE st[k]]

(* ------------------------------------------------------------------ Proxy *)
(* Proxy.proxies is [ok, list]: ok is FALSE when the field holds           *)
(* `undefined` (a credential response without .results); list holds the    *)
(* identities, named by their place in the response.                       *)
NoPool == [ok |-> TRUE, list |-> <<>>]
UndefinedPool == [ok |-> FALSE, list |-> <<>>]
PoolOf(n) == [ok |-> TRUE, list |-> [i \in 1..n |-> i]]

\* GetNextProxy with the counter advanced before it is used.
GetNextProxyIncrementFirst(px, ix) ==
  LET n == Len(px.list)
  IN [proxy |-> IF n = 0 THEN 0 ELSE px.list[((ix + 1) % n) + 1],
      at |-> IF n = 0 THEN -1 ELSE (ix + 1) % n,
      index |-> ix + 1]

\* Proxy._getNextProxy() on a defined list: the proxy (0 for the
\* `undefined` an empty list yields), its 0-based place, the counter after.
GetNextProxy(px, ix) ==
  LET n == Len(px.list)
  IN [proxy |-> IF n = 0 THEN 0 ELSE px.list[(ix % n) + 1],
      at |-> IF n = 0 THEN -1 ELSE ix % n,
      index |-> ix + 1]

(* ------------------------------------------------------------- ProxyFetch *)
(* A request: which endpoint, its parameter, and the Cookie header.        *)
(*   u  "list" (buildListUrl(n)) | "bio" (buildBioUrl(n))                  *)
RequestHash(u, n, cookie) == [u |-> u, n |-> n, c |-> cookie]

(* The customHeaders argument, as far as it can matter to the fingerprint: *)
(*   cookie       the Cookie property: [has, val]                           *)
(*   ua           a User-Agent override (0: none)                          *)
(*   extra        some other header is present                             *)
(*   cookieFirst  the Cookie property comes first in the object            *)
Headers(cookie, ua, extra, cookieFirst) ==
  [cookie |-> cookie, ua |-> ua, extra |-> extra, cookieFirst |-> cookieFirst]
NoCookie == [has |-> FALSE, val |-> ""]
Cookie(val) == [has |-> TRUE, val |-> val]
NoHeaders == Headers(NoCookie, 0, FALSE, FALSE)

\* GetRequestHash over the url alone.
GetRequestHashOfUrl(u, n, h) == RequestHash(u, n, "")

\* _getRequestHash(url, headers): `headers.Cookie || ""`, so a missing
\* Cookie and an empty one give the same key.  SHA-256 is taken to be
\* injective on the texts hashed.
GetRequestHash(u, n, h) ==
  RequestHash(u, n, IF h.cookie.has /\ h.cookie.val # "" THEN h.cookie.val ELSE "")

(* A call of the FileCache API or of _getRequestHash, as its caller sees   *)
(* it:                                                                     *)
(*   op    "none" | "set" | "get" | "delete" | "purge" | "hash"            *)
(*   key   the key argument (of "hash": the fingerprint returned; of       *)
(*         "purge", which has none: the key of the call before)            *)
(*   v     the value argument of set                                       *)
(*   ttl   the ttlSeconds argument of set                                  *)
(*   at    Date.now() during the call                                      *)
(*   ret   the value get returned (Undefined: absent)                      *)
(*   was   the boolean delete returned                                     *)
(*   threw the call raised to its caller                                   *)
(*   pre   the file the key named when the call was made                   *)
(*   req   the arguments of _getRequestHash: [u, n, h]                     *)
NoReq == [u |-> "list", n |-> 0, h |-> NoHeaders]
Call(op, key, v, ttl, at, ret, was, threw, pre, req) ==
  [op |-> op, key |-> key, v |-> v, ttl |-> ttl, at |-> at, ret |-> ret,
   was |-> was, threw |-> threw, pre |-> pre, req |-> req]
NoCall ==
  Call("none", RequestHash("list", 0, ""), Undefined, 0, 0, Undefined, FALSE, FALSE,
       NoFile, NoReq)

(* One call in flight, and the item it is made for:                        *)
(*   kind     who awaits it: "none" | "lib" (a caller of the library) |    *)
(*            "first" (work, page 0) | "page" (fetchPage) |                *)
(*            "bio" (fetchAgentBio)                                        *)
(*   u        the endpoint requested, "list" or "bio"                      *)
(*   item     the page number, or the agent id                             *)
(*   cookie   the Cookie header of the request ("" when none)              *)
(*   ttl      the ttl handed to proxyFetch.fetch                           *)
(*   attempt  fetchPage's / fetchAgentBio's attempt parameter              *)
(*   pc       "await" (proxyFetch.fetch pending) | "sleep" (the 200 ms     *)
(*            before a retry) | "done" (the item's promise has settled)    *)
(*   fetch    the promise proxyFetch.fetch returned:                       *)
(*            "none" | "pending" | "resolved" | "rejected"                 *)
(*   agent    the promise getProxyAgent returned, likewise                 *)
(*   net      the axios request: "none" | "pending" | "ok" | "failed"      *)
(*   nets     axios requests this fetch call has issued                    *)
(*   tries    proxyFetch.fetch calls made for the item                     *)
(*   hit      the fetch call was answered from the cache                   *)
(*   at       the place in the pool of the proxy taken (-1: none)          *)
(*   body     the body of the response received (Undefined: none)          *)
(*   err      the failure axios reported ("" when none)                    *)
(*   reason   the error the fetch promise rejected with                    *)
(*   val      the value the fetch promise resolved with                    *)
(*   logged   entries the item has appended to the error log               *)
(*   res      the value the item's promise resolved with                   *)
(*   ord      the item was the ord-th of its batch to settle (0: not yet)  *)
(*   slept    the delays slept before the retries so far, in ms            *)
NoRes == [k |-> "none", ids |-> <<>>, id |-> 0]
NewTask(kind, u, item, cookie, ttl) ==
  [kind |-> kind, u |-> u, item |-> item, cookie |-> cookie, ttl |-> ttl, attempt |-> 1,
   pc |-> "await", fetch |-> "none", agent |-> "none", net |-> "none", nets |-> 0,
   tries |-> 0, hit |-> FALSE, at |-> -1, body |-> Undefined, err |-> "",
   reason |-> "", val |-> Undefined, logged |-> 0, res |-> NoRes, ord |-> 0,
   slept |-> <<>>]
NoTask == [NewTask("none", "list", 0, "", 0) EXCEPT !.pc = "done"]

\* cacheKey = this._getRequestHash(url, customHeaders)
FetchKey(t) == RequestHash(t.u, t.item, t.cookie)

(* The shared objects the calls act on: c.store (the cache directory),     *)
(* c.proxies and c.index (the Proxy singleton), and two counters of the    *)
(* model: c.creds, the requests sent to the credential service, and        *)
(* c.takes, the getProxyAgent calls completed so far, in the order they    *)
(* completed, each [ix, size, at]: the counter the call found, the length  *)
(* of the list it found (-1: it threw before reading one) and the place of *)
(* the proxy it returned (-1: none).                                       *)
Took(ix, size, at) == [ix |-> ix, size |-> size, at |-> at]


\* getProxyAgent from _getNextProxy on: reading .length of an undefined
\* list throws; an empty list yields `undefined`, whose .username throws
\* after the counter has advanced.
TakeProxy(c, t) ==
  IF ~c.proxies.ok
  THEN [c |-> [c EXCEPT !.takes = Append(@, Took(c.index, -1, -1))],
        t |-> [t EXCEPT !.agent = "rejected"]]
  ELSE LET r == GetNextProxy(c.proxies, c.index)
           c1 == [c EXCEPT !.index = r.index,
                           !.takes = Append(@, Took(c.index, Len(c.proxies.list), r.at))]
       IN IF r.proxy = 0 THEN [c |-> c1, t |-> [t EXCEPT !.agent = "rejected"]]
          ELSE [c |-> c1,
                t |-> [t EXCEPT !.agent = "resolved", !.at = r.at,
                                !.net = "pending", !.nets = @ + 1]]

\* getProxyAgent up to its first suspension: with an empty list it sends
\* the credential request and waits for it.
GetProxyAgent(c, t) ==
  IF c.proxies.ok /\ Len(c.proxies.list) = 0
  THEN [c |-> [c EXCEPT !.creds = @ + 1], t |-> [t EXCEPT !.agent = "pending"]]
  ELSE TakeProxy(c, t)

\* proxyFetch.fetch(url, headers, ttl) up to its first suspension.
ProxyFetch(c, nw, t) ==
  LET g == CacheGet(c.store, nw, FetchKey(t))
      c1 == [c EXCEPT !.store = g.store]
      t1 == [t EXCEPT !.pc = "await", !.fetch = "pending", !.agent = "none",
                      !.net = "none", !.nets = 0, !.tries = @ + 1, !.hit = FALSE,
                      !.at = -1, !.body = Undefined, !.err = "", !.reason = "",
                      !.val = Undefined]
  IN IF Truthy(g.val)
     THEN [c |-> c1, t |-> [t1 EXCEPT !.fetch = "resolved", !.val = g.val, !.hit = TRUE]]
     ELSE GetProxyAgent(c1, t1)

\* _getProxyList completes.  out.ok: the request and req.json() succeeded;
\* out.pool: res.results.
ProxyListResponse(c, t, out) ==
  IF ~out.ok
  THEN [c |-> [c EXCEPT !.takes = Append(@, Took(c.index, -1, -1))],
        t |-> [t EXCEPT !.agent = "rejected"]]
  ELSE TakeProxy([c EXCEPT !.proxies = out.pool], t)

\* AxiosResponse with a retry of its own: a first failure sends the
\* request again instead of rejecting.
AxiosResponseRetriesOnce(c, nw, t, out) ==
  IF out.ok
  THEN [c |-> [c EXCEPT !.store = CacheSet(c.store, nw, FetchKey(t), out.body, t.ttl)],
        t |-> [t EXCEPT !.net = "ok", !.body = out.body,
                        !.fetch = "resolved", !.val = out.body]]
  ELSE IF t.nets < 2
  THEN [c |-> c, t |-> [t EXCEPT !.net = "pending", !.nets = @ + 1]]
  ELSE [c |-> c,
        t |-> [t EXCEPT !.net = "failed", !.err = out.err,
                        !.fetch = "rejected", !.reason = out.err]]

\* The axios request completes.  out.ok: a response with a success status,
\* out.body its data; otherwise out.err is the failure.
AxiosResponse(c, nw, t, out) ==
  IF out.ok
  THEN [c |-> [c EXCEPT !.store = CacheSet(c.store, nw, FetchKey(t), out.body, t.ttl)],
        t |-> [t EXCEPT !.net = "ok", !.body = out.body,
                        !.fetch = "resolved", !.val = out.body]]
  ELSE [c |-> c,
        t |-> [t EXCEPT !.net = "failed", !.err = out.err,
                        !.fetch = "rejected", !.reason = out.err]]

(* ------------------------------------------------------------------ state *)
VARIABLES
  store,        \* the cache directory: request hash -> file
  now,          \* Date.now(), in ms
  proxies,      \* Proxy.proxies
  index,        \* Proxy.index
  creds,        \* requests sent to the credential service so far
  takes,        \* the getProxyAgent calls completed so far, each [ix, size, at]
  tasks,        \* the calls of the current batch (Spec) or of the callers (SpecLib)
  cfg,          \* [ttl, maxRetries, batchSize], read from the environment
  pc,           \* where work() stands
  loopI,        \* the loop variable i of the batch loops
  pages,        \* Math.ceil(total / pageSize)
  allAgentIds,  \* the identifiers collected
  errors,       \* the error log
  output,       \* the lines written to the output stream
  totalWritten, \* the written-count
  closed,       \* outputStream.end() has been called
  exit,         \* the process: "none" (running) | "0" | "1"
  last,         \* the latest call of the FileCache / fingerprint API (SpecCache)
  listing       \* what phase 1 has asked for and received: [total, dispatched, lists]

vars == <<store, now, proxies, index, creds, takes, tasks, cfg, pc, loopI, pages,
          allAgentIds, errors, output, totalWritten, closed, exit, last, listing>>

\* The state as one record, so that the code run between two suspensions
\* composes as functions of it.
Cur ==
  [store |-> store, now |-> now, proxies |-> proxies, index |-> index,
   creds |-> creds, takes |-> takes, tasks |-> tasks, cfg |-> cfg, pc |-> pc,
   loopI |-> loopI, pages |-> pages, allAgentIds |-> allAgentIds,
   errors |-> errors, output |-> output, totalWritten |-> totalWritten,
   closed |-> closed, exit |-> exit, last |-> last, listing |-> listing]

Becomes(S) ==
  /\ store' = S.store /\ now' = S.now /\ proxies' = S.proxies /\ index' = S.index
  /\ creds' = S.creds /\ takes' = S.takes /\ tasks' = S.tasks /\ cfg' = S.cfg
  /\ pc' = S.pc /\ loopI' = S.loopI /\ pages' = S.pages
  /\ allAgentIds' = S.allAgentIds /\ errors' = S.errors /\ output' = S.output
  /\ totalWritten' = S.totalWritten /\ closed' = S.closed /\ exit' = S.exit
  /\ last' = S.last /\ listing' = S.listing

Settled(t) == t.fetch \in {"resolved", "rejected"}
\* getProxyAgent rejected: the .then() in proxyFetch.fetch has no rejection
\* handler, so the fetch promise stays pending for ever.
Hung(t) == t.fetch = "pending" /\ t.agent = "rejected"

(* What phase 1 has asked for and received so far:                         *)
(*   total       parseInt(firstPageResult.data.totalAgents), -1 for NaN,   *)
(*               -2 while page 0 has not answered                          *)
(*   dispatched  the pages whose fetch was started, in that order          *)
(*   lists       per page collected, in the order collected: [page, ok,    *)
(*               agent], ok when the page's promise carried the response's *)
(*               agent list, agent the list of the response                *)
NoListing == [total |-> -2, dispatched |-> <<>>, lists |-> <<>>]
PageList(page, ok, agent) == [page |-> page, ok |-> ok, agent |-> agent]

(* ------------------------------------------------- fetchPage, fetchAgentBio *)
PageError(page, retries) == [what |-> "page", item |-> page, retries |-> retries]
AgentError(id, retries) == [what |-> "agent", item |-> id, retries |-> retries]

\* RetryDelay as the README's "exponential backoff": doubled per attempt.
RetryDelayExponential(attempt) == RetryDelayMs * 2 ^ (attempt - 1)

\* The delay slept after failed attempt number `attempt`: `sleep(200)`.
RetryDelay(attempt) == RetryDelayMs

\* The catch block of fetchPage and of fetchAgentBio.
RetryOrGiveUp(S, k) ==
  LET t == S.tasks[k]
  IN IF t.attempt < S.cfg.maxRetries
     THEN [S EXCEPT !.tasks[k].pc = "sleep",
                    !.tasks[k].slept = Append(@, RetryDelay(t.attempt))]
     ELSE IF t.kind = "page"
       THEN [S EXCEPT !.errors = Append(@, PageError(t.item, S.cfg.maxRetries)),
                      !.tasks[k].pc = "done", !.tasks[k].logged = @ + 1,
                      !.tasks[k].res = [k |-> "list", ids |-> <<>>, id |-> 0]]
       ELSE [S EXCEPT !.errors = Append(@, AgentError(t.item, S.cfg.maxRetries)),
                      !.tasks[k].pc = "done", !.tasks[k].logged = @ + 1,
                      !.tasks[k].res = [k |-> "null", ids |-> <<>>, id |-> 0]]

\* fetchPage after its await: `return res.data.agent` throws when res has
\* no .data object, and returns undefined when .data has no .agent.
FetchPageAfter(S, k) ==
  LET t == S.tasks[k]
  IN IF t.fetch = "resolved" /\ HasData(t.val)
     THEN [S EXCEPT !.tasks[k].pc = "done",
                    !.tasks[k].res =
                       IF t.val.data = "list"
                       THEN [k |-> "list", ids |-> t.val.agent, id |-> 0]
                       ELSE [k |-> "undef", ids |-> <<>>, id |-> 0]]
     ELSE RetryOrGiveUp(S, k)

\* FetchAgentBioAfter writing its record to the stream itself, as soon as
\* the item settles, and leaving nothing for the write loop.
FetchAgentBioAfterWrites(S, k) ==
  LET t == S.tasks[k]
  IN IF t.fetch = "resolved" /\ ~ReadDataThrows(t.val)
     THEN [S EXCEPT !.tasks[k].pc = "done",
                    !.tasks[k].res = [k |-> "null", ids |-> <<>>, id |-> 0],
                    !.output = Append(@, [id |-> t.item, of |-> t.item]),
                    !.totalWritten = @ + 1]
     ELSE RetryOrGiveUp(S, k)

\* fetchAgentBio after its await: `{ id: agentId, ...res.data }` throws
\* when res is null; an id among the fields of res.data replaces agentId.
FetchAgentBioAfter(S, k) ==
  LET t == S.tasks[k]
  IN IF t.fetch = "resolved" /\ ~ReadDataThrows(t.val)
     THEN [S EXCEPT !.tasks[k].pc = "done",
                    !.tasks[k].res =
                       [k |-> "rec", ids |-> <<>>,
                        id |-> IF t.val.t = "obj" /\ t.val.data = "bio" /\ t.val.id # 0
                               THEN t.val.id ELSE t.item]]
     ELSE RetryOrGiveUp(S, k)

\* The items of the batch that settled before item k.
SettledBefore(S, k) ==
  Cardinality({j \in DOMAIN S.tasks \ {k} :
                 S.tasks[j].kind # "none" /\ S.tasks[j].pc = "done"})

\* What the caller of proxyFetch.fetch does once the promise has settled;
\* an item that settles there is numbered in the order of settlement.
ItemAfter(S, k) ==
  LET t == S.tasks[k]
      R == IF ~Settled(t) THEN S
           ELSE IF t.kind = "page" THEN FetchPageAfter(S, k)
           ELSE IF t.kind = "bio" THEN FetchAgentBioAfter(S, k)
           ELSE [S EXCEPT !.tasks[k].pc = "done"]
  IN IF R.tasks[k].pc = "done" /\ t.pc # "done"
     THEN [R EXCEPT !.tasks[k].ord = SettledBefore(R, k) + 1]
     ELSE R

\* One attempt: the call of proxyFetch.fetch and, when the cache answers
\* it, what follows the await.
Attempt(S, k, t) ==
  LET r == ProxyFetch(S, S.now, t)
  IN ItemAfter([r.c EXCEPT !.tasks[k] = r.t], k)

(* ------------------------------------------------------------------ work *)
\* work() rejects: the .catch at the top level logs and calls process.exit(1).
WorkRejects(S) == [S EXCEPT !.pc = "rejected", !.exit = "1"]

\* AllDone as Promise.race would have it: one settled item is enough.
AllDoneSome(S) == \E k \in DOMAIN S.tasks : S.tasks[k].pc = "done"

\* `await Promise.allSettled(...)` resumes: every item's promise has settled.
AllDone(S) == \A k \in DOMAIN S.tasks : S.tasks[k].pc = "done"

Min(a, b) == IF a < b THEN a ELSE b

\* CeilDiv with Math.floor for Math.ceil: a last, partial page is lost.
CeilDivFloors(total, size) == total \div size

\* Math.ceil(total / pageSize) for total >= 0.
CeilDiv(total, size) == (total + size - 1) \div size

RECURSIVE LaunchFrom(_, _, _, _)
\* batch.map(item => fetchX(item, ...)): every call runs to its first
\* suspension, in input order, before work() awaits any of them.
LaunchFrom(S, kind, items, k) ==
  IF k > Len(items) THEN S
  ELSE LaunchFrom(Attempt(S, k, NewTask(kind, IF kind = "bio" THEN "bio" ELSE "list",
                                        items[k], "", S.cfg.ttl)),
                  kind, items, k + 1)

Launch(S, kind, items) ==
  LaunchFrom([S EXCEPT !.tasks = [k \in 1..Len(items) |-> NoTask]], kind, items, 1)

RECURSIVE Concat(_)
Concat(ss) == IF Len(ss) = 0 THEN <<>> ELSE Head(ss) \o Concat(Tail(ss))

\* BatchRecords walking `results` from its end.
BatchRecordsReversed(S) ==
  LET n == Len(S.tasks)
  IN Concat([i \in 1..n |->
       LET k == n + 1 - i
       IN IF S.tasks[k].res.k = "rec"
          THEN <<[id |-> S.tasks[k].res.id, of |-> S.tasks[k].item]>>
          ELSE <<>>])

\* The records of a settled phase-2 batch, in the order of `results`.
BatchRecords(S) ==
  LET n == Len(S.tasks)
  IN Concat([k \in 1..n |->
       IF S.tasks[k].res.k = "rec"
       THEN <<[id |-> S.tasks[k].res.id, of |-> S.tasks[k].item]>>
       ELSE <<>>])

\* Phase 2 after `await Promise.allSettled`: the write loop, then the
\* inter-batch sleep.
Collect2(S) ==
  LET recs == BatchRecords(S)
  IN [S EXCEPT !.output = @ \o recs, !.totalWritten = @ + Len(recs), !.pc = "sleep2"]

\* The head of the phase-2 loop; past its end, the stream is closed and
\* work() resolves.
Loop2(S) ==
  IF S.loopI < Len(S.allAgentIds)
  THEN LET hi == Min(S.loopI + S.cfg.batchSize, Len(S.allAgentIds))
           batch == SubSeq(S.allAgentIds, S.loopI + 1, hi)
           L == Launch([S EXCEPT !.pc = "batch2"], "bio", batch)
       IN IF AllDone(L) THEN Collect2(L) ELSE L
  ELSE [S EXCEPT !.pc = "resolved", !.closed = TRUE, !.exit = "0", !.tasks = <<>>]

\* Phase 1 after `await Promise.allSettled`: result.value.map(...) throws
\* on the first result whose value is undefined.
Collect1(S) ==
  LET n == Len(S.tasks)
      bad == {k \in 1..n : S.tasks[k].res.k = "undef"}
      upTo == IF bad = {} THEN n ELSE (CHOOSE k \in bad : \A j \in bad : k <= j) - 1
      ids == Concat([k \in 1..upTo |-> S.tasks[k].res.ids])
      got == [k \in 1..n |->
                LET t == S.tasks[k]
                    ok == t.res.k = "list" /\ t.logged = 0
                IN PageList(t.item, ok, IF ok THEN t.val.agent ELSE <<>>)]
      S1 == [S EXCEPT !.allAgentIds = @ \o ids, !.listing.lists = @ \o got]
  IN IF bad = {} THEN [S1 EXCEPT !.pc = "sleep1"] ELSE WorkRejects(S1)

\* The head of the phase-1 loop; past its end, phase 2 starts.
Loop1(S) ==
  IF S.loopI < S.pages
  THEN LET len == Min(S.cfg.batchSize, S.pages - S.loopI)
           batchPages == [j \in 1..len |-> S.loopI + j - 1]
           L == Launch([S EXCEPT !.pc = "batch1",
                                 !.listing.dispatched = @ \o batchPages],
                       "page", batchPages)
       IN IF AllDone(L) THEN Collect1(L) ELSE L
  ELSE Loop2([S EXCEPT !.loopI = 0])

\* work() after `await proxyFetch.fetch(buildListUrl(0), {}, ttl)`.
\* parseInt of a missing totalAgents is NaN, and so is pages: `1 < NaN` is
\* false, as it is for pages = 0.
AfterFirst(S) ==
  LET t == S.tasks[1]
      v == t.val
  IN IF t.fetch = "rejected" \/ ~HasData(v) \/ v.data # "list"
     THEN WorkRejects(S)
     ELSE Loop1([S EXCEPT !.pages = IF v.total < 0 THEN 0 ELSE CeilDiv(v.total, PageSize),
                          !.allAgentIds = v.agent,
                          !.loopI = 1,
                          !.listing.total = v.total,
                          !.listing.lists = <<PageList(0, TRUE, v.agent)>>])

\* What work() does when a promise it awaits has settled.
WorkAfter(S) ==
  IF S.pc = "first" /\ Settled(S.tasks[1]) THEN AfterFirst(S)
  ELSE IF S.pc = "batch1" /\ AllDone(S) THEN Collect1(S)
  ELSE IF S.pc = "batch2" /\ AllDone(S) THEN Collect2(S)
  ELSE S

(* ------------------------------------------------------- the environment *)
Ids == 1..MaxId
AgentLists == {<<>>} \cup {<<a>> : a \in Ids}
Totals == {-1} \cup 0..MaxTotal

\* What the remote API may answer with a success status.
FirstBodies ==
  {ListBody(a, n) : a \in AgentLists, n \in Totals} \cup {NoAgentBody(MaxTotal), Str("a")}
PageBodies == {ListBody(a, -1) : a \in AgentLists} \cup {NoAgentBody(-1), Str("a")}
BioBodies == {BioBody(i) : i \in 0..MaxId} \cup {Null}
LibBodies == {Str(""), Null, BioBody(0)}

BodiesFor(t) ==
  IF t.kind = "first" THEN FirstBodies
  ELSE IF t.kind = "page" THEN PageBodies
  ELSE IF t.kind = "bio" THEN BioBodies
  ELSE LibBodies

NetErrors(t) == IF t.kind = "lib" THEN {"network", "status", "timeout"} ELSE {"timeout"}

NetOutcomes(t) ==
  {[ok |-> TRUE, body |-> b, err |-> ""] : b \in BodiesFor(t)}
    \cup {[ok |-> FALSE, body |-> Undefined, err |-> e] : e \in NetErrors(t)}

\* What the credential service may answer: a failure, a body without
\* .results, or a list of 0..MaxPool proxies.
PoolOutcomes ==
  {[ok |-> FALSE, pool |-> NoPool], [ok |-> TRUE, pool |-> UndefinedPool]}
    \cup {[ok |-> TRUE, pool |-> PoolOf(n)] : n \in 0..MaxPool}

(* ---------------------------------------------------------------- actions *)
Running == exit = "none"

\* A caller of the library resumes as soon as its promise settles, before
\* any other event is handled.
LibQuiet == \A k \in DOMAIN tasks : ~(tasks[k].kind = "lib" /\ tasks[k].pc = "done")

\* The axios request of call k completes.
AxiosRespond(k, out) ==
  /\ Running /\ LibQuiet
  /\ tasks[k].net = "pending"
  /\ LET r == AxiosResponse(Cur, now, tasks[k], out)
     IN Becomes(WorkAfter(ItemAfter([r.c EXCEPT !.tasks[k] = r.t], k)))

\* The credential request of call k completes.
ProxyListRespond(k, out) ==
  /\ Running /\ LibQuiet
  /\ tasks[k].agent = "pending"
  /\ LET r == ProxyListResponse(Cur, tasks[k], out)
     IN Becomes(WorkAfter(ItemAfter([r.c EXCEPT !.tasks[k] = r.t], k)))

\* sleep(200) is over: the recursive call with attempt + 1.
RetryWake(k) ==
  /\ Running
  /\ tasks[k].pc = "sleep"
  /\ Becomes(WorkAfter(Attempt(Cur, k, [tasks[k] EXCEPT !.attempt = @ + 1])))

\* sleep(delayBetweenBatchesMs) is over: i += batchSize and the loop test.
BatchSleepDone ==
  /\ Running
  /\ pc \in {"sleep1", "sleep2"}
  /\ LET S == [Cur EXCEPT !.loopI = @ + cfg.batchSize]
     IN Becomes(IF pc = "sleep1" THEN Loop1(S) ELSE Loop2(S))

\* work() up to its first await.
Start ==
  /\ Running
  /\ pc = "start"
  /\ LET S == [Cur EXCEPT !.pc = "first", !.tasks = <<NoTask>>,
                          !.listing.dispatched = <<0>>]
     IN Becomes(WorkAfter(Attempt(S, 1, NewTask("first", "list", 0, "", cfg.ttl))))

\* A rejection nobody handles: Node's default (--unhandled-rejections=throw)
\* ends the process with exit code 1.
ProcessCrash ==
  /\ Running
  /\ \E k \in DOMAIN tasks : Hung(tasks[k])
  /\ exit' = "1"
  /\ UNCHANGED <<store, now, proxies, index, creds, takes, tasks, cfg, pc, loopI,
                 pages, allAgentIds, errors, output, totalWritten,
                 closed, last, listing>>

\* With the rejection only warned about, the process ends with code 0 once
\* nothing is pending any more: a promise that never settles keeps no
\* event loop alive.
EventLoopDrain ==
  /\ Running
  /\ pc \in {"first", "batch1", "batch2"}
  /\ \E k \in DOMAIN tasks : Hung(tasks[k])
  /\ \A k \in DOMAIN tasks :
        tasks[k].pc # "sleep" /\ tasks[k].net # "pending" /\ tasks[k].agent # "pending"
  /\ exit' = "0"
  /\ UNCHANGED <<store, now, proxies, index, creds, takes, tasks, cfg, pc, loopI,
                 pages, allAgentIds, errors, output, totalWritten,
                 closed, last, listing>>

\* The clock advances by a second.
Tick ==
  /\ LibQuiet
  /\ now < MaxNow * MsPerSecond
  /\ now' = now + MsPerSecond
  /\ UNCHANGED <<store, proxies, index, creds, takes, tasks, cfg, pc, loopI, pages,
                 allAgentIds, errors, output, totalWritten, closed, exit, last, listing>>

(* --------------------------------------------------------- Spec: one run *)
CfgTtls == {-1, 1}
Configs == [ttl : CfgTtls, maxRetries : 1..MaxRetriesBound, batchSize : 1..MaxBatchSize]

MaxPages == CeilDiv(MaxTotal, PageSize)
RunKeys ==
  {RequestHash("list", p, "") : p \in 0..(MaxPages - 1)}
    \cup {RequestHash("bio", a, "") : a \in Ids}

\* A file an earlier run wrote, still live.
LiveFile(v) == CacheSet([k \in {0} |-> NoFile], 0, 0, v, 1)[0]

\* The cache directory a run may find: empty, or holding page 0 from an
\* earlier run, as the first of several pages or as the only one.
RunStores ==
  {[k \in RunKeys |-> NoFile]}
    \cup {[k \in RunKeys |-> IF k = RequestHash("list", 0, "") THEN LiveFile(b) ELSE NoFile] :
            b \in {ListBody(<<1>>, MaxTotal), ListBody(<<1, 2>>, PageSize)}}

Init ==
  /\ store \in RunStores
  /\ now = 0
  /\ proxies = NoPool
  /\ index = 0
  /\ creds = 0
  /\ takes = <<>>
  /\ tasks = <<>>
  /\ cfg \in Configs
  /\ pc = "start"
  /\ loopI = 0
  /\ pages = 0
  /\ allAgentIds = <<>>
  /\ errors = <<>>
  /\ output = <<>>
  /\ totalWritten = 0
  /\ closed = FALSE
  /\ exit = "none"
  /\ last = NoCall
  /\ listing = NoListing

Next ==
  \/ Start
  \/ \E k \in DOMAIN tasks : \E out \in NetOutcomes(tasks[k]) : AxiosRespond(k, out)
  \/ \E k \in DOMAIN tasks : \E out \in PoolOutcomes : ProxyListRespond(k, out)
  \/ \E k \in DOMAIN tasks : RetryWake(k)
  \/ BatchSleepDone
  \/ ProcessCrash
  \/ EventLoopDrain

Spec == Init /\ [][Next]_vars

(* ------------------------------------------- SpecLib: callers of the library *)
LibTtls == {-1, 0, 1}
LibKeys == {RequestHash("bio", a, "") : a \in Ids}

\* What a file of the cache directory may hold when a process starts:
\* nothing, text that does not parse, an object of unknown type, an
\* expired entry, or a live entry written by set().
LibFiles ==
  {NoFile, CorruptFile,
   CacheFile("other", RawText(Str("a")), "num", MsPerSecond),
   CacheFile("string", RawText(Str("a")), "num", -1),
   LiveFile(Str("")), LiveFile(Str("a")), LiveFile(BioBody(0))}

\* A caller calls proxyFetch.fetch(url, {}, ttl); the calls take the slots
\* of `tasks` in order.
LibFetch(k, a, ttl) ==
  /\ pc = "lib" /\ LibQuiet
  /\ tasks[k].kind = "none"
  /\ \A j \in 1..(k - 1) : tasks[j].kind # "none"
  /\ Becomes(Attempt(Cur, k, NewTask("lib", "bio", a, "", ttl)))

\* The caller has the outcome of call k; the slot is not used again.
LibReturn(k) ==
  /\ tasks[k].kind = "lib" /\ tasks[k].pc = "done"
  /\ tasks' = [tasks EXCEPT ![k] = [NoTask EXCEPT !.kind = "used"]]
  /\ UNCHANGED <<store, now, proxies, index, creds, takes, cfg, pc, loopI, pages,
                 allAgentIds, errors, output, totalWritten, closed, exit, last, listing>>

InitLib ==
  /\ store \in {[k \in LibKeys |-> IF k = RequestHash("bio", 1, "") THEN f ELSE NoFile] : f \in LibFiles}
  /\ now = 0
  /\ proxies = NoPool
  /\ index = 0
  /\ creds = 0
  /\ takes = <<>>
  /\ tasks = [k \in 1..MaxCalls |-> NoTask]
  /\ cfg = [ttl |-> 0, maxRetries |-> 1, batchSize |-> 1]
  /\ pc = "lib"
  /\ loopI = 0
  /\ pages = 0
  /\ allAgentIds = <<>>
  /\ errors = <<>>
  /\ output = <<>>
  /\ totalWritten = 0
  /\ closed = FALSE
  /\ exit = "none"
  /\ last = NoCall
  /\ listing = NoListing

NextLib ==
  \/ \E k \in DOMAIN tasks : \E a \in Ids : \E ttl \in LibTtls : LibFetch(k, a, ttl)
  \/ \E k \in DOMAIN tasks : \E out \in NetOutcomes(tasks[k]) : AxiosRespond(k, out)
  \/ \E k \in DOMAIN tasks : \E out \in PoolOutcomes : ProxyListRespond(k, out)
  \/ \E k \in DOMAIN tasks : LibReturn(k)
  \/ Tick

SpecLib == InitLib /\ [][NextLib]_vars

(* ------------------------- SpecItem: one call of fetchPage / fetchAgentBio *)
\* The pages and identifiers a lone call is made for.
ItemCalls ==
  {[kind |-> "page", item |-> p] : p \in 1..(MaxPages - 1)}
    \cup {[kind |-> "bio", item |-> a] : a \in Ids}

\* fetchPage(page, bar, errors) or fetchAgentBio(id, errors, bar) is called,
\* attempt = 1.
ItemCall(kind, item) ==
  /\ pc = "item"
  /\ tasks[1].kind = "none"
  /\ Becomes(Attempt(Cur, 1, NewTask(kind, IF kind = "bio" THEN "bio" ELSE "list",
                                     item, "", cfg.ttl)))

InitItem ==
  /\ store = [k \in RunKeys |-> NoFile]
  /\ now = 0
  /\ proxies \in {NoPool, PoolOf(1)}
  /\ index = 0
  /\ creds = 0
  /\ takes = <<>>
  /\ tasks = <<NoTask>>
  /\ cfg \in [ttl : CfgTtls, maxRetries : 1..MaxItemRetries, batchSize : {1}]
  /\ pc = "item"
  /\ loopI = 0
  /\ pages = 0
  /\ allAgentIds = <<>>
  /\ errors = <<>>
  /\ output = <<>>
  /\ totalWritten = 0
  /\ closed = FALSE
  /\ exit = "none"
  /\ last = NoCall
  /\ listing = NoListing

NextItem ==
  \/ \E c \in ItemCalls : ItemCall(c.kind, c.item)
  \/ \E k \in DOMAIN tasks : \E out \in NetOutcomes(tasks[k]) : AxiosRespond(k, out)
  \/ \E k \in DOMAIN tasks : \E out \in PoolOutcomes : ProxyListRespond(k, out)
  \/ \E k \in DOMAIN tasks : RetryWake(k)

SpecItem == InitItem /\ [][NextItem]_vars

(* ------------------------------------- SpecCache: callers of the FileCache *)
\* The two keys the callers use.
CacheKeys == {RequestHash("list", 0, ""), RequestHash("bio", 1, "")}

\* The values handed to set: strings and what JSON.parse makes of a body.
CacheValues == {Str(""), Str("a"), Null, BioBody(0)}

\* What a file may hold when the process starts: the files of LibFiles,
\* and entries whose expiresAt is 0, null or missing, an entry of type json
\* whose value is no JSON text, and one of type string without a value.
CacheFiles ==
  LibFiles \cup
    {CacheFile("string", RawText(Str("a")), "num", 0),
     CacheFile("json", JsonText(BioBody(0)), "null", 0),
     CacheFile("string", RawText(Str("a")), "missing", 0),
     CacheFile("json", RawText(Str("a")), "num", MsPerSecond),
     CacheFile("string", NoText, "num", MsPerSecond)}

\* Nothing of the scraper or of the proxy moves.
CacheOnly ==
  UNCHANGED <<now, proxies, index, creds, takes, tasks, cfg, pc, loopI, pages,
              allAgentIds, errors, output, totalWritten, closed, exit, listing>>

\* cache.set(key, v, ttl)
SetCall(key, v, ttl) ==
  /\ pc = "cache"
  /\ store' = CacheSet(store, now, key, v, ttl)
  /\ last' = Call("set", key, v, ttl, now, Undefined, FALSE, FALSE, store[key], NoReq)
  /\ CacheOnly

\* cache.get(key)
GetCall(key) ==
  /\ pc = "cache"
  /\ LET g == CacheGet(store, now, key)
     IN /\ store' = g.store
        /\ last' = Call("get", key, Undefined, 0, now, g.val, FALSE, g.threw, store[key], NoReq)
  /\ CacheOnly

\* cache.delete(key)
DeleteCall(key) ==
  /\ pc = "cache"
  /\ LET d == CacheDelete(store, key)
     IN /\ store' = d.store
        /\ last' = Call("delete", key, Undefined, 0, now, Undefined, d.was, FALSE, store[key], NoReq)
  /\ CacheOnly

\* cache.purgeExpired()
PurgeCall ==
  /\ pc = "cache"
  /\ store' = CachePurgeExpired(store, now)
  /\ last' = Call("purge", last.key, Undefined, 0, now, Undefined, FALSE, FALSE,
                  store[last.key], NoReq)
  /\ CacheOnly

InitCache ==
  /\ store \in {[k \in CacheKeys |-> IF k = RequestHash("bio", 1, "") THEN f ELSE NoFile] :
                  f \in CacheFiles}
  /\ now = 0
  /\ proxies = NoPool
  /\ index = 0
  /\ creds = 0
  /\ takes = <<>>
  /\ tasks = <<>>
  /\ cfg = [ttl |-> 0, maxRetries |-> 1, batchSize |-> 1]
  /\ pc = "cache"
  /\ loopI = 0
  /\ pages = 0
  /\ allAgentIds = <<>>
  /\ errors = <<>>
  /\ output = <<>>
  /\ totalWritten = 0
  /\ closed = FALSE
  /\ exit = "none"
  /\ last = NoCall
  /\ listing = NoListing

NextCache ==
  \/ \E key \in CacheKeys : \E v \in CacheValues : \E ttl \in LibTtls : SetCall(key, v, ttl)
  \/ \E key \in CacheKeys : GetCall(key)
  \/ \E key \in CacheKeys : DeleteCall(key)
  \/ PurgeCall
  \/ Tick

SpecCache == InitCache /\ [][NextCache]_vars

(* --------------------------------- SpecHash: callers of _getRequestHash *)
HashUrls ==
  {[u |-> "list", n |-> p] : p \in 0..(MaxPages - 1)} \cup {[u |-> "bio", n |-> a] : a \in Ids}
HashCookies == {NoCookie, Cookie(""), Cookie("a"), Cookie("b")}
HashHeaders ==
  {Headers(c, ua, extra, first) :
     c \in HashCookies, ua \in {0, 1}, extra \in BOOLEAN, first \in BOOLEAN}

\* this._getRequestHash(url, customHeaders)
HashCall(u, n, h) ==
  /\ pc = "hash"
  /\ last' = Call("hash", GetRequestHash(u, n, h), Undefined, 0, now, Undefined, FALSE,
                  FALSE, NoFile, [u |-> u, n |-> n, h |-> h])
  /\ UNCHANGED <<store, now, proxies, index, creds, takes, tasks, cfg, pc, loopI, pages,
                 allAgentIds, errors, output, totalWritten, closed, exit, listing>>

InitHash ==
  /\ store = [k \in CacheKeys |-> NoFile]
  /\ now = 0
  /\ proxies = NoPool
  /\ index = 0
  /\ creds = 0
  /\ takes = <<>>
  /\ tasks = <<>>
  /\ cfg = [ttl |-> 0, maxRetries |-> 1, batchSize |-> 1]
  /\ pc = "hash"
  /\ loopI = 0
  /\ pages = 0
  /\ allAgentIds = <<>>
  /\ errors = <<>>
  /\ output = <<>>
  /\ totalWritten = 0
  /\ closed = FALSE
  /\ exit = "none"
  /\ last = NoCall
  /\ listing = NoListing

NextHash == \E r \in HashUrls : \E h \in HashHeaders : HashCall(r.u, r.n, h)

SpecHash == InitHash /\ [][NextHash]_vars

(* ================================================================ claims *)

(* ---- C1 ---------------------------------------------------------------- *)
\* The item of call t has failed for good: its catch block gave up, or its
\* only fetch can never settle.
FailedForGood(t) == t.kind \in {"page", "bio"} /\ (t.logged > 0 \/ Hung(t))

\* Nothing the batch waits for is outstanding any more.
BatchQuiet ==
  \A k \in DOMAIN tasks :
    tasks[k].pc # "sleep" /\ tasks[k].net # "pending" /\ tasks[k].agent # "pending"

\* C1 (retry exhaustion): in both phases an item whose fetch fails on
\* every attempt has been attempted exactly maxRetries times and has
\* appended exactly one entry to the error log, and once nothing is
\* outstanding every other item of its batch has yielded its result.
C1_RetryExhaustion ==
  \A k \in DOMAIN tasks :
    FailedForGood(tasks[k])
    => /\ tasks[k].tries = cfg.maxRetries
       /\ tasks[k].logged = 1
       /\ BatchQuiet => \A j \in DOMAIN tasks \ {k} : tasks[j].pc = "done"

(* ---- C2 ---------------------------------------------------------------- *)
\* The last n entries of a sequence.
LastN(seq, n) == SubSeq(seq, Len(seq) - n + 1, Len(seq))

\* C2 (partial-failure isolation in phase 2): when exactly one item of a
\* batch of K has failed for good and the other K-1 have yielded a record,
\* the K-1 records are the last entries of the output, exactly one error was
\* logged by the batch, work() has not rejected and is on its way to the
\* next batch.
C2_PartialFailureIsolation ==
  \A k \in DOMAIN tasks :
    ( /\ pc \in {"batch2", "sleep2"}
      /\ FailedForGood(tasks[k])
      /\ \A j \in DOMAIN tasks \ {k} : tasks[j].pc = "done" /\ tasks[j].res.k = "rec" )
    => /\ pc = "sleep2" /\ exit = "none"
       /\ Len(output) >= Len(tasks) - 1
       /\ LastN(output, Len(tasks) - 1) = BatchRecords(Cur)
       /\ tasks[k].logged = 1
       /\ \A j \in DOMAIN tasks \ {k} : tasks[j].logged = 0

(* ---- C3 ---------------------------------------------------------------- *)
\* C3 (one bad page never aborts enumeration): whatever the pages of a
\* phase-1 batch came to, work() does not reject there.
C3_BadPageNeverAborts ==
  ~(pc = "rejected" /\ \E k \in DOMAIN tasks : tasks[k].kind = "page")

(* ---- C4 ---------------------------------------------------------------- *)
\* C4 (setup-fatal): when the fetch of page 0 has failed, for whatever
\* cause, it was attempted once, no batch was launched, and the process
\* ends only by work() rejecting, with exit code 1.
C4_SetupFatal ==
  ( /\ pc \in {"first", "rejected"} /\ Len(tasks) = 1 /\ tasks[1].kind = "first"
    /\ (tasks[1].fetch = "rejected" \/ Hung(tasks[1])) )
  => /\ tasks[1].tries = 1
     /\ exit # "none" => (pc = "rejected" /\ exit = "1")

(* ---- C8 ---------------------------------------------------------------- *)
\* C8 (pool populated exactly once): the credential service is never
\* called a second time, and a populated pool is never replaced.
C8_PopulatedOnce ==
  [][creds' <= 1 /\ (proxies # NoPool => proxies' = proxies)]_vars

Rotations == {i \in 1..Len(takes) : takes[i].size >= 0}

Holds(st, nw) == [key \in DOMAIN st |-> CacheGet(st, nw, key).val]

(* ---- C11 --------------------------------------------------------------- *)
\* A step that is a call of the FileCache API: the clock stands still.
CacheCallStep(op) == last'.op = op /\ now' = now

\* C11 (cache round-trip): set(k, v, ttl) with ttl > 0 immediately followed
\* by get(k) returns v, a string as a string and a structured value as a
\* structured value, whatever k named before the set.
C11_RoundTrip ==
  [][ ( /\ last.op = "set" /\ last.ttl > 0 /\ last.at = now
        /\ CacheCallStep("get") /\ last'.key = last.key )
      => (last'.ret = last.v /\ ~last'.threw) ]_vars

\* A get has returned the string "a" from the entry that a set of the
\* same second wrote with a ttl of one second.
C11_Witness ==
  /\ last.op = "get" /\ last.at = MsPerSecond /\ last.ret = Str("a")
  /\ last.pre.st = "file" /\ last.pre.expk = "num" /\ last.pre.exp = 2 * MsPerSecond

(* ---- C12 --------------------------------------------------------------- *)
\* f is the file set(k, v, ttl) writes, for some ttl > 0 and some time.
WrittenBySet(f, v) ==
  /\ f.st = "file" /\ f.expk = "num" /\ f.exp >= MsPerSecond
  /\ \E ttl \in {t \in LibTtls : t > 0} :
       f = CacheSet([k \in {0} |-> NoFile], f.exp - ttl * MsPerSecond, 0, v, ttl)[0]

\* C12 as stated (cache TTL expiry): a get(k) issued once the ttl of the
\* entry set(k, v, ttl) wrote has elapsed returns absent and removes the
\* entry, so that delete(k) finds nothing; one issued before returns v and
\* leaves the entry in place.
C12_ExpiryOnceElapsed ==
  \A v \in CacheValues :
    (last.op = "get" /\ WrittenBySet(last.pre, v))
    => /\ last.at >= last.pre.exp
          => ( /\ last.ret = Undefined /\ store[last.key] = NoFile
               /\ ~CacheDelete(store, last.key).was )
       /\ last.at < last.pre.exp
          => (last.ret = v /\ store[last.key] = last.pre)

\* C12 amended: a get(k) issued later than the expiry time (more than ttl
\* after the set) returns absent and removes the entry; one issued up to
\* and including the expiry time returns v and leaves the entry in place.
C12_ExpiryStrictlyAfter ==
  \A v \in CacheValues :
    (last.op = "get" /\ WrittenBySet(last.pre, v))
    => /\ last.at > last.pre.exp
          => ( /\ last.ret = Undefined /\ store[last.key] = NoFile
               /\ ~CacheDelete(store, last.key).was )
       /\ last.at <= last.pre.exp
          => (last.ret = v /\ store[last.key] = last.pre)

\* A get found an entry that had expired a second before, and removed it.
C12_Witness ==
  /\ last.op = "get" /\ WrittenBySet(last.pre, Str("a"))
  /\ last.at = last.pre.exp + MsPerSecond
  /\ last.ret = Undefined /\ store[last.key] = NoFile

(* ---- C13 --------------------------------------------------------------- *)
\* What get would return at time nw for a key naming file f.
FileValue(f, nw) == CacheGet([k \in {0} |-> f], nw, 0).val

\* C13 (set is a no-op for a non-positive ttl): set(k, v, ttl) with
\* ttl <= 0 leaves the whole cache directory as it was, and a get(k) right
\* after it returns what the entry k named before gives (absent when there
\* was none).
C13_NonPositiveTtlNoOp ==
  [][ /\ (CacheCallStep("set") /\ last'.ttl <= 0) => store' = store
      /\ ( /\ last.op = "set" /\ last.ttl <= 0 /\ last.at = now
           /\ CacheCallStep("get") /\ last'.key = last.key )
         => /\ last'.ret = FileValue(last.pre, now)
            /\ last.pre = NoFile => last'.ret = Undefined ]_vars

\* A set with ttl 0 was made on a key holding a live entry, which is still
\* there.
C13_Witness ==
  /\ last.op = "set" /\ last.ttl = 0 /\ last.v = Null
  /\ WrittenBySet(last.pre, Str("a")) /\ store[last.key] = last.pre

(* ---- C14 --------------------------------------------------------------- *)
\* The file's text, or the JSON text it holds as its value, does not parse.
Malformed(f) ==
  \/ f.st = "corrupt"
  \/ f.st = "file" /\ f.type = "json" /\ f.value.txt # "json"

\* expiresAt is a time before nw (null counting as 0).
Expired(f, nw) ==
  /\ f.st = "file"
  /\ \/ f.expk = "num" /\ f.exp # 0 /\ f.exp < nw
     \/ f.expk = "null" /\ 0 < nw

\* C14 (corruption and expiry collapse to absent): whatever the file of
\* the key holds, get does not raise; when it is malformed or expired get
\* removes it and returns absent; and get leaves every other key's file as
\* it was.
C14_CorruptOrExpiredIsAbsent ==
  [][ CacheCallStep("get")
      => /\ ~last'.threw
         /\ last'.pre = store[last'.key]
         /\ (Malformed(last'.pre) \/ Expired(last'.pre, now))
            => (last'.ret = Undefined /\ store'[last'.key] = NoFile)
         /\ \A other \in DOMAIN store \ {last'.key} : store'[other] = store[other] ]_vars

\* A get found a file whose text does not parse, removed it and returned
\* absent.
C14_Witness ==
  /\ last.op = "get" /\ last.pre = CorruptFile
  /\ last.ret = Undefined /\ store[last.key] = NoFile

(* ---- C15 --------------------------------------------------------------- *)
\* The entry carries an expiry timestamp, not zero, that lies before nw.
TimestampInPast(f, nw) ==
  f.st = "file" /\ f.expk = "num" /\ f.exp # 0 /\ f.exp < nw

\* C15 (purgeExpired removes exactly the expired entries): after
\* purgeExpired() every entry whose expiry timestamp was in the past is
\* gone and every other file is there unchanged, and get(k) returns for
\* every key what it would have returned without the sweep.
C15_PurgeExactlyExpired ==
  [][ CacheCallStep("purge")
      => /\ \A k \in DOMAIN store :
              store'[k] = IF TimestampInPast(store[k], now) THEN NoFile ELSE store[k]
         /\ Holds(store', now) = Holds(store, now) ]_vars

\* A sweep has removed an expired entry and kept one without expiry.
C15_Witness ==
  /\ last.op = "purge" /\ last.key = RequestHash("list", 0, "")
  /\ WrittenBySet(last.pre, Str("a")) /\ last.pre.exp < last.at
  /\ store[last.key] = NoFile
  /\ store[RequestHash("bio", 1, "")] = CacheFile("string", RawText(Str("a")), "num", 0)

(* ---- C16 --------------------------------------------------------------- *)
\* The phase whose batch loop work() is in (0: neither).
PhaseOf(p) ==
  IF p \in {"batch1", "sleep1"} THEN 1 ELSE IF p \in {"batch2", "sleep2"} THEN 2 ELSE 0

\* C16 (batches are sequential, concurrency is bounded): a batch is
\* launched only when every item of the batch before it has settled and
\* the sleep after that batch is over; the calls in flight are those of the
\* one current batch, in input order, and at most batchSize of them.
C16_BatchesSequential ==
  [][ /\ (PhaseOf(pc') # 0 /\ <<PhaseOf(pc'), loopI'>> # <<PhaseOf(pc), loopI>>)
         => ( PhaseOf(pc) # 0
              => /\ pc \in {"sleep1", "sleep2"}
                 /\ \A k \in DOMAIN tasks : tasks[k].pc = "done" )
      /\ PhaseOf(pc') # 0
         => /\ Len(tasks') <= cfg.batchSize
            /\ \A k \in DOMAIN tasks' :
                 IF PhaseOf(pc') = 1
                 THEN tasks'[k].kind = "page" /\ tasks'[k].item = loopI' + k - 1
                 ELSE tasks'[k].kind = "bio" /\ tasks'[k].item = allAgentIds'[loopI' + k]
      /\ \A k \in DOMAIN tasks \cap DOMAIN tasks' :
           (PhaseOf(pc) # 0 /\ tasks'[k].tries > tasks[k].tries /\ tasks[k].tries > 0)
           => (tasks'[k].item = tasks[k].item /\ loopI' = loopI) ]_vars

\* The second batch of phase 1 is in flight.
C16_Witness ==
  /\ pc = "batch1" /\ loopI = 1 + cfg.batchSize
  /\ \E k \in DOMAIN tasks : tasks[k].net = "pending"

(* ---- C17 --------------------------------------------------------------- *)
\* The record of item k of the batch ts, as a sequence of 0 or 1 element.
RecordOf(ts, k) ==
  IF ts[k].res.k = "rec" THEN <<[id |-> ts[k].res.id, of |-> ts[k].item]>> ELSE <<>>

\* The records of a settled batch in the order its items settled.
RecordsBySettlement(ts) ==
  Concat([i \in 1..Len(ts) |-> RecordOf(ts, CHOOSE k \in 1..Len(ts) : ts[k].ord = i)])

\* The records of a settled batch in the order of the batch.
RecordsByInput(ts) == Concat([k \in 1..Len(ts) |-> RecordOf(ts, k)])

\* C17 as stated (output order is completion order): the records a
\* phase-2 batch appends to the output are in the order in which their
\* fetches settled.
C17_OutputInSettlementOrder ==
  [][ output' # output
      => ( /\ \A k \in DOMAIN tasks' : tasks'[k].pc = "done"
           /\ output' = output \o RecordsBySettlement(tasks') ) ]_vars

\* C17 amended: the records of a phase-2 batch are appended only once
\* every item of the batch has settled, and in the order of the batch
\* (input order), whatever the order in which the fetches settled.
C17_OutputInInputOrder ==
  [][ output' # output
      => ( /\ \A k \in DOMAIN tasks' : tasks'[k].pc = "done"
           /\ output' = output \o RecordsByInput(tasks') ) ]_vars

\* The second item of a batch settled before the first, and the output
\* ends with the record of the first followed by that of the second.
C17_Witness ==
  /\ pc = "sleep2" /\ Len(tasks) = 2
  /\ tasks[1].ord = 2 /\ tasks[2].ord = 1
  /\ tasks[1].res.k = "rec" /\ tasks[2].res.k = "rec"
  /\ Len(output) >= 2
  /\ LastN(output, 2) = RecordOf(tasks, 1) \o RecordOf(tasks, 2)

(* ---- C18 --------------------------------------------------------------- *)
\* The number of pages the batch loop and page 0 cover together.
PagesCovered == IF pages > 1 THEN pages ELSE 1

\* C18 (enumeration completeness): pages is ceil(total / pageSize); the
\* pages are dispatched in the order 0, 1, 2, ..., each once and none at or
\* beyond pages (page 0 apart); once phase 2 has started every page below
\* pages has been dispatched and collected, and when every page succeeded
\* the identifiers collected are the pages' agent lists, concatenated in
\* page order.
C18_EnumerationComplete ==
  LET d == listing.dispatched
      got == listing.lists
  IN /\ \A i \in 1..Len(d) : d[i] = i - 1
     /\ listing.total >= 0
        => (pages * PageSize >= listing.total /\ (pages - 1) * PageSize < listing.total)
     /\ listing.total # -2 => Len(d) <= PagesCovered
     /\ pc \in {"batch2", "sleep2", "resolved"}
        => /\ Len(d) = PagesCovered /\ Len(got) = PagesCovered
           /\ \A i \in 1..Len(got) : got[i].page = i - 1
           /\ (\A i \in 1..Len(got) : got[i].ok)
              => allAgentIds = Concat([i \in 1..Len(got) |-> got[i].agent])

\* Three pages succeeded, the middle one empty, and phase 2 works on the
\* two identifiers of the other two.
C18_Witness ==
  /\ pc = "batch2" /\ pages = 3 /\ Len(listing.lists) = 3
  /\ \A i \in 1..3 : listing.lists[i].ok
  /\ listing.lists[1].agent = <<1>> /\ listing.lists[2].agent = <<>>
  /\ listing.lists[3].agent = <<2>>
  /\ allAgentIds = <<1, 2>>

(* ---- C19 --------------------------------------------------------------- *)
\* The session cookie a request carries ("" when it carries none).
SessionCookie(h) == IF h.cookie.has THEN h.cookie.val ELSE ""

\* C19 (fingerprint stability): two requests get the same fingerprint
\* exactly when they have the same url and the same session cookie,
\* whatever their other headers and the order of their headers.
C19_FingerprintStable ==
  [][ (last.op = "hash" /\ last'.op = "hash")
      => ( last'.key = last.key
           <=> ( /\ last'.req.u = last.req.u /\ last'.req.n = last.req.n
                 /\ SessionCookie(last'.req.h) = SessionCookie(last.req.h) ) ) ]_vars

\* A request with cookie "b", a User-Agent override and another header,
\* the cookie not first, has been given the fingerprint of (url, "b").
C19_Witness ==
  /\ last.op = "hash" /\ last.req.h = Headers(Cookie("b"), 1, TRUE, FALSE)
  /\ last.key = RequestHash(last.req.u, last.req.n, "b")

(* ---- C20 --------------------------------------------------------------- *)
\* Page 0 has answered and work() has read totalAgents from it.
PageZeroSucceeded == listing.total # -2

\* C20 (run termination): once page 0 has succeeded, when every network
\* and credential request has completed and no timer is pending, the run
\* has finished: every identifier was dispatched, the last batch's records
\* are written and the output stream is closed.
C20_RunTerminates ==
  ( /\ PageZeroSucceeded /\ BatchQuiet
    /\ pc \notin {"sleep1", "sleep2"} )
  => ( /\ pc = "resolved" /\ closed
       /\ loopI >= Len(allAgentIds)
       /\ totalWritten = Len(output) )

(* ---- C21 --------------------------------------------------------------- *)
\* C21 (no concurrent writes to the output sink): a step that writes to
\* the output stream ends at the sleep that precedes the next batch, with
\* every item of the batch it wrote for settled: all of its fetches,
\* requests and retry sleeps are over, and no item of another batch exists.
C21_WritesAtBatchSettlement ==
  [][ output' # output
      => ( /\ pc' = "sleep2"
           /\ Len(tasks') <= cfg.batchSize
           /\ \A k \in DOMAIN tasks' :
                /\ tasks'[k].kind = "bio" /\ tasks'[k].pc = "done"
                /\ tasks'[k].net # "pending" /\ tasks'[k].agent # "pending"
                /\ tasks'[k].fetch # "pending"
                /\ tasks'[k].item = allAgentIds[loopI' + k]
           /\ \A i \in (Len(output) + 1)..Len(output') :
                \E k \in DOMAIN tasks' : output'[i].of = tasks'[k].item ) ]_vars

\* The first item of a batch of two settled first, with a record, and was
\* written only once the second had failed for good.
C21_Witness ==
  /\ pc = "sleep2" /\ Len(tasks) = 2
  /\ tasks[1].ord = 1 /\ tasks[1].res.k = "rec"
  /\ tasks[2].ord = 2 /\ tasks[2].logged = 1
  /\ Len(output) >= 1 /\ output[Len(output)].of = tasks[1].item

CountOf(seq, Test(_)) == Cardinality({i \in 1..Len(seq) : Test(seq[i])})

\* The run went past phase 1.
ReachedPhase2 == pc \in {"batch2", "sleep2", "resolved"}

\* C23 (output conservation): when a run that reached phase 2 has ended,
\* every occurrence of a collected identifier is accounted for by one
\* record in the output or by one entry of the error log, not both and not
\* neither: the written-count plus the phase-2 error entries is the number
\* of identifiers collected, and the written-count is the number of lines.
C23_OutputConservation ==
  (exit # "none" /\ ReachedPhase2)
  => /\ totalWritten = Len(output)
     /\ totalWritten + CountOf(errors, LAMBDA e : e.what = "agent") = Len(allAgentIds)
     /\ \A a \in Ids :
          CountOf(output, LAMBDA r : r.of = a)
            + CountOf(errors, LAMBDA e : e.what = "agent" /\ e.item = a)
          = CountOf(allAgentIds, LAMBDA x : x = a)

(* ---- C24 --------------------------------------------------------------- *)
\* The item's latest attempt got a response with a success status and was
\* counted as a failure all the same: a retry is due, or the item gave up.
CountedFailureOfResponse(t) ==
  /\ t.kind \in {"page", "bio"}
  /\ t.net = "ok"
  /\ (t.pc = "sleep" \/ t.logged > 0)

\* C24 (no cache poisoning by rejected responses): an attempt that is
\* counted as a failure although it got a response has left no cache entry
\* under the item's fingerprint, and no retry of an item is answered from
\* the cache.
C24_NoCachePoisoning ==
  \A k \in DOMAIN tasks :
    /\ CountedFailureOfResponse(tasks[k]) => store[FetchKey(tasks[k])] = NoFile
    /\ (tasks[k].kind \in {"page", "bio"} /\ tasks[k].attempt > 1) => ~tasks[k].hit

(* ---- C25 --------------------------------------------------------------- *)
\* C25 (record identity): every record of the output carries as its id the
\* identifier whose detail fetch produced it, so that records of distinct
\* identifiers have distinct ids.
C25_RecordIdentity ==
  /\ \A i \in 1..Len(output) : output[i].id = output[i].of
  /\ \A i, j \in 1..Len(output) :
       output[i].of # output[j].of => output[i].id # output[j].id

(* ---- C5 ---------------------------------------------------------------- *)
\* The file set(key, v, ttl) writes for v, whatever its expiry.
HoldsValue(f, v) ==
  /\ f.st = "file" /\ f.expk = "num"
  /\ f.type = LiveFile(v).type /\ f.value = LiveFile(v).value

StoredValues == LibBodies \cup {Str("a")}

\* C5 (cache-first fetch): a fetch call made while the cache holds an
\* unexpired entry for the request's fingerprint, whatever the value stored,
\* resolves with that value, sends no network request and acquires no
\* identity (no credential request, counter unchanged).
C5_CacheFirst ==
  [][\A k \in DOMAIN tasks : \A v \in StoredValues :
       ( /\ tasks[k].kind = "none" /\ tasks'[k].kind = "lib"
         /\ HoldsValue(store[FetchKey(tasks'[k])], v)
         /\ now <= store[FetchKey(tasks'[k])].exp )
       => ( /\ tasks'[k].fetch = "resolved" /\ tasks'[k].val = v
            /\ tasks'[k].nets = 0 /\ tasks'[k].agent = "none"
            /\ index' = index /\ creds' = creds )]_vars

(* ---- C6 ---------------------------------------------------------------- *)
\* C6 (fetch failure propagation): when the network request of a fetch
\* call fails, the call rejects with that failure, it has sent exactly one
\* request, no call sends another one in that step, and the cache directory
\* is unchanged; no fetch call ever sends a second request.  The earlier
\* steps of such a call leave the cache as it was too: the call itself
\* changes what no get() returns, and the credential response changes no
\* file.
C6_FailurePropagates ==
  [][ /\ \A k \in DOMAIN tasks' : tasks'[k].nets <= 1
      /\ \A k \in DOMAIN tasks :
           /\ (tasks[k].net = "pending" /\ tasks'[k].net = "failed")
              => ( /\ tasks'[k].fetch = "rejected"
                   /\ tasks'[k].err # "" /\ tasks'[k].reason = tasks'[k].err
                   /\ tasks[k].nets = 1 /\ tasks'[k].nets = 1
                   /\ store' = store
                   /\ \A j \in DOMAIN tasks : tasks'[j].nets = tasks[j].nets )
           /\ (tasks[k].kind = "none" /\ tasks'[k].kind = "lib")
              => Holds(store', now) = Holds(store, now)
           /\ (tasks[k].agent = "pending" /\ tasks'[k].agent # "pending")
              => store' = store ]_vars

\* A call has been rejected with the non-success status of its one request.
C6_Witness ==
  \E k \in DOMAIN tasks :
    /\ tasks[k].kind = "lib" /\ tasks[k].fetch = "rejected"
    /\ tasks[k].net = "failed" /\ tasks[k].reason = "status" /\ tasks[k].nets = 1

(* ---- C7 ---------------------------------------------------------------- *)
\* C7 (pool-failure propagation): when getProxyAgent rejects (the
\* credential request failed, or it gave no usable pool), the fetch call
\* that needed the identity rejects to its caller.
C7_PoolFailurePropagates ==
  \A k \in DOMAIN tasks : tasks[k].agent = "rejected" => tasks[k].fetch = "rejected"

(* ---- C10 --------------------------------------------------------------- *)
\* The times from nw to the expiry of an entry written at nw with ttl.
UntilExpiry(nw, ttl) == {nw + j * MsPerSecond : j \in 0..ttl}

\* C10 (fetch success populates the cache): when the network request of a
\* fetch call succeeds with body b, the call resolves with b; with ttl > 0
\* get(fingerprint) returns b from then until the expiry and no other key
\* has changed; with ttl <= 0 the cache directory is exactly as it was.
C10_SuccessPopulatesCache ==
  [][\A k \in DOMAIN tasks :
       (DOMAIN tasks' = DOMAIN tasks /\ tasks[k].net = "pending" /\ tasks'[k].net = "ok")
       => LET t == tasks'[k]
              key == FetchKey(t)
          IN /\ t.fetch = "resolved" /\ t.val = t.body
             /\ t.ttl > 0 =>
                  /\ \A nw \in UntilExpiry(now, t.ttl) : CacheGet(store', nw, key).val = t.body
                  /\ \A other \in DOMAIN store \ {key} : store'[other] = store[other]
             /\ t.ttl <= 0 => store' = store ]_vars

\* A call with ttl > 0 has resolved with the body received, and the cache
\* holds that body under the call's fingerprint.
C10_Witness ==
  \E k \in DOMAIN tasks :
    /\ tasks[k].kind = "lib" /\ tasks[k].net = "ok" /\ tasks[k].ttl > 0
    /\ tasks[k].val = Null
    /\ HoldsValue(store[FetchKey(tasks[k])], Null)

====
